---- MODULE Spec2Model ----
(***************************************************************************)
(* DiffusionEquation (src/src/diffusion/DiffusionEquation.cpp): the        *)
(* implicit viscous-diffusion step on a multi-level embedded-boundary mesh.*)
(*                                                                         *)
(* Each AMR level is modelled as a pencil of NCells cells along x with a   *)
(* halo of ghost cells at both ends; the fields are taken uniform in y and *)
(* z.  Reals are modelled by integers; the viscosities are even so that    *)
(* the face average 0.5*(a+b) is exact.  The external multigrid solver is  *)
(* opaque: it overwrites every solution buffer it is handed with a field   *)
(* chosen nondeterministically.  Memory the code never writes keeps the    *)
(* value `uninit`, which the construction draws from UninitVals.           *)
(***************************************************************************)
EXTENDS Integers, Sequences, FiniteSets, TLC

\* ---------------------------------------------------------------- bounds
MaxLevel == 1       \* amrcore->maxLevel()
NCells == 3         \* cells of a level along x
MaxSolves == 2      \* number of solve calls explored

\* ------------------------------------------------------ program constants
AMREX_SPACEDIM == 3
ncomp == 3          \* components of phi, rhs and vel_eb
phi_nghost == 1     \* halo of phi
nghost == 1         \* halo of b and vel_eb (_nghost of the constructor)

Levels == 0..MaxLevel
Cells == 1..NCells
Comps == 0..(ncomp - 1)
Dirs == 0..(AMREX_SPACEDIM - 1)
Grown(ng) == (1 - ng)..(NCells + ng)

\* ------------------------------------------------------- inputs (bounded)
\* <<bottom_solver_type, p>>: the name, and p selecting the other parameters
Configs == {<<"smoother", 0>>, <<"hypre", 1>>, <<"bicgstab", 0>>, <<"gmres_typo", 1>>}
Speeds == {0, 2}
Layouts == 0..2
UninitVals == {0, 7777}
StepCases == 0..1
SolCases == 0..1

\* ParmParse table "diffusion" as read by readParameters
readParameters(name, p) ==
    [verbose |-> p,
     mg_verbose |-> 1 + p,
     mg_cg_verbose |-> 3 + p,
     mg_max_iter |-> 100 + p,
     mg_cg_maxiter |-> 200 + p,
     mg_max_fmg_iter |-> 10 + p,
     mg_max_coarsening_level |-> 20 + p,
     mg_rtol |-> 30 + p,
     mg_atol |-> 40 + p,
     bottom_solver_type |-> name]

\* The caller's fields at time step k: velocity (3 components, 1 ghost),
\* density and viscosity (1 component, 1 ghost), and the step size.
VelField(k) ==
    [lev \in Levels |-> [i \in Grown(1) |-> [c \in Comps |->
        1 + 100 * lev + 10 * i + c + 5 * k]]]
RoField(p) ==
    [lev \in Levels |-> [i \in Grown(1) |-> [c \in {0} |-> 2 + p + lev + i]]]
EtaField(p) ==
    [lev \in Levels |-> [i \in Grown(1) |-> [c \in {0} |-> 2 * (3 + p + lev + i)]]]
DtOf(p) == 2 + p
\* What the external solver leaves in the solution buffers (halo included).
SolField(s) ==
    [lev \in Levels |-> [i \in Grown(phi_nghost) |-> [c \in Comps |->
        1000 + 100 * lev + 10 * i + c + 5 * s]]]

\* ----------------------------------------------- embedded-boundary geometry
\* Tiles of two cells each (MFIter tilebox).
TileOf(i) == (i + 1) \div 2
TileCells(t) == {i \in Cells : TileOf(i) = t}

\* EBCellFlag of cell i in layout g.
EBFlag(g, i) ==
    CASE g = 0 -> "regular"
      [] g = 1 -> IF i = 1 THEN "covered"
                  ELSE IF i = 2 THEN "singlevalued" ELSE "regular"
      [] OTHER -> IF i = 1 THEN "regular"
                  ELSE IF i = 2 THEN "singlevalued" ELSE "covered"

UnitDir(n) ==
    CASE n = 0 -> <<1, 0>>
      [] n = 1 -> <<0, 1>>
      [] n = 2 -> <<-1, 0>>
      [] OTHER -> <<0, -1>>

\* getBndryNormal: unit normal in a cut cell, (+0.0, +0.0) elsewhere.
BndryNormal(g, lev, i) ==
    IF EBFlag(g, i) = "singlevalued" THEN UnitDir((g + lev + i) % 4) ELSE <<0, 0>>

\* EBCellFlagFab::getType(bx)
getType(flags, t) ==
    IF \A i \in TileCells(t) : flags[i] = "regular" THEN "regular"
    ELSE IF \A i \in TileCells(t) : flags[i] = "covered" THEN "covered"
    ELSE "singlevalued"

\* Angles are multiples of pi/2.  The arguments are negated normal
\* components, so a zero argument is -0.0: atan2(-0,+x) = -0, atan2(-0,-x) =
\* -pi, atan2(-0,-0) = -pi.
atan2(y, x) ==
    IF y > 0 THEN 1
    ELSE IF y < 0 THEN -1
    ELSE IF x > 0 THEN 0 ELSE -2
\* sin and cos at multiples of pi/2, rounded to the nearest integer.
sin(q) == IF q = 1 THEN 1 ELSE IF q = -1 THEN -1 ELSE 0
cos(q) == IF q = 0 THEN 1 ELSE IF q = 2 \/ q = -2 THEN -1 ELSE 0

\* The constructor's fill of vel_eb[lev] (lines 91-118).  setVal(0.0, bx)
\* is BaseFab::setVal(x, bx, N = 0): it sets component 0 on bx.  Nothing
\* writes the halo, and nothing writes component 2 of a mixed tile.
FillVelEb(flags, nrm, speed, u) ==
    [i \in Grown(nghost) |->
        IF i \notin Cells THEN [c \in Comps |-> u]
        ELSE IF getType(flags, TileOf(i)) \in {"covered", "regular"}
        THEN [c \in Comps |-> IF c = 0 THEN 0 ELSE u]
        ELSE LET theta == atan2(-nrm[i][2], -nrm[i][1])
             IN [c \in Comps |->
                   IF c = 0 THEN speed * sin(theta)
                   ELSE IF c = 1 THEN -(speed * cos(theta))
                   ELSE u]]

\* set_diff_bc: the domain-face codes of level 0.
set_diff_bc(periodic) ==
    [lo |-> [d \in Dirs |-> IF periodic THEN "Periodic" ELSE "Dirichlet"],
     hi |-> [d \in Dirs |-> IF periodic THEN "Periodic" ELSE "Dirichlet"]]

\* ------------------------------------------------------ MultiFab operations
\* MultiFab::Copy(dst, src, srccomp, dstcomp, numcomp, nghost)
Copy(dst, src, sc, dc, nc, ng) ==
    [i \in DOMAIN dst |->
        IF i \in Grown(ng)
        THEN [c \in DOMAIN dst[i] |->
                IF c >= dc /\ c < dc + nc THEN src[i][sc + (c - dc)] ELSE dst[i][c]]
        ELSE dst[i]]

\* MultiFab::Multiply(dst, src, srccomp, dstcomp, numcomp, nghost)
Multiply(dst, src, sc, dc, nc, ng) ==
    [i \in DOMAIN dst |->
        IF i \in Grown(ng)
        THEN [c \in DOMAIN dst[i] |->
                IF c >= dc /\ c < dc + nc
                THEN dst[i][c] * src[i][sc + (c - dc)] ELSE dst[i][c]]
        ELSE dst[i]]

\* FillBoundary(periodicity): ghost entries that are periodic images of
\* valid entries 1..hi are overwritten with them; domain-boundary ghosts
\* of a non-periodic domain are left alone.
FillBoundary(f, hi, ng, periodic) ==
    [i \in DOMAIN f |->
        IF periodic /\ i < 1 /\ i >= 1 - ng THEN f[i + NCells]
        ELSE IF periodic /\ i > hi /\ i <= hi + ng THEN f[i - NCells]
        ELSE f[i]]

\* Valid faces of direction dir: nodal in x for dir 0, cell-centred in x
\* otherwise.
FaceHi(dir) == IF dir = 0 THEN NCells + 1 ELSE NCells
FaceIdx(dir) == (1 - nghost)..(FaceHi(dir) + nghost)

\* average_cellcenter_to_face(fc, cc, geom): fc is written on its valid
\* faces; across a y or z face both neighbours hold cc[i].
average_cellcenter_to_face_accum(fc, cc) ==
    [dir \in Dirs |-> [i \in DOMAIN fc[dir] |->
        IF i >= 1 /\ i <= FaceHi(dir)
        THEN fc[dir][i] + (IF dir = 0 THEN (cc[i - 1][0] + cc[i][0]) \div 2
                           ELSE (cc[i][0] + cc[i][0]) \div 2)
        ELSE fc[dir][i]]]
average_cellcenter_to_face(fc, cc) ==
    [dir \in Dirs |-> [i \in DOMAIN fc[dir] |->
        IF i >= 1 /\ i <= FaceHi(dir)
        THEN IF dir = 0 THEN (cc[i - 1][0] + cc[i][0]) \div 2
             ELSE (cc[i][0] + cc[i][0]) \div 2
        ELSE fc[dir][i]]]

\* --------------------------------------------------------- linear operator
\* matrix.define / setMaxOrder / setDomainBC (lines 121-133).  A coefficient
\* of a level that was never set is <<>>; the scalars start at 0.
DefineMatrix(cfg0, bc0) ==
    [levels |-> Levels,
     max_coarsening_level |-> cfg0.mg_max_coarsening_level,
     max_order |-> 3,
     domain_bc |-> bc0,
     alpha |-> 0,
     beta |-> 0,
     a |-> [lev \in Levels |-> <<>>],
     shear |-> [lev \in Levels |-> <<>>],
     eb_shear |-> [lev \in Levels |-> <<>>],
     level_bc |-> [lev \in Levels |-> <<>>],
     eb_dirichlet |-> [lev \in Levels |-> "none"]]

setScalars_swapped(m, al, be) == [m EXCEPT !.alpha = be, !.beta = al]
setScalars(m, al, be) == [m EXCEPT !.alpha = al, !.beta = be]

setACoeffs(m, lev, ro) == [m EXCEPT !.a[lev] = [i \in Cells |-> ro[i][0]]]
setShearViscosity(m, lev, blev) == [m EXCEPT !.shear[lev] = blev]
setEBShearViscosity(m, lev, eta) == [m EXCEPT !.eb_shear[lev] = [i \in Cells |-> eta[i][0]]]
setLevelBC(m, lev, philev) == [m EXCEPT !.level_bc[lev] = philev]

\* The levels of the three loops of solve.
CoeffLevels(fl) == 0..fl
RhsLevels(fl) == 0..fl
CopyBackLevels_all(fl) == 0..MaxLevel
CopyBackLevels(fl) == 0..fl
\* The buffers handed to the solver: the whole vectors phi and rhs.
SolverLevels == 0..MaxLevel

\* Lines 187-201 for one level: face average, halo exchange, bindings.
RefreshLevel(st, lev, ro, eta, periodic) ==
    LET avg == average_cellcenter_to_face(st.b[lev], eta)
        blev == [dir \in Dirs |-> FillBoundary(avg[dir], FaceHi(dir), nghost, periodic)]
        m1 == setACoeffs(st.matrix, lev, ro)
        m2 == setShearViscosity(m1, lev, blev)
        m3 == setEBShearViscosity(m2, lev, eta)
    IN [matrix |-> m3, b |-> [st.b EXCEPT ![lev] = blev]]

RECURSIVE RefreshLoop(_, _, _, _, _, _)
RefreshLoop(st, lev, fl, ro_in, eta_in, periodic) ==
    IF lev \notin CoeffLevels(fl) THEN st
    ELSE RefreshLoop(RefreshLevel(st, lev, ro_in[lev], eta_in[lev], periodic),
                     lev + 1, fl, ro_in, eta_in, periodic)

\* The coefficient refresh of solve (lines 187-201) on st = [matrix, b].
RefreshCoeffs(st, ro_in, eta_in, dt, fl, periodic) ==
    RefreshLoop([matrix |-> setScalars(st.matrix, 1, dt), b |-> st.b],
                0, fl, ro_in, eta_in, periodic)

\* for (i = 0; i < 3; i++) Multiply(rhs, ro, 0, i, 1, rhs.nGrow())
RECURSIVE MultiplyLoop_comp0(_, _, _)
MultiplyLoop_comp0(r, ro, i) ==
    IF i >= 3 THEN r ELSE MultiplyLoop_comp0(Multiply(r, ro, 0, 0, 1, 0), ro, i + 1)
RECURSIVE MultiplyLoop(_, _, _)
MultiplyLoop(r, ro, i) ==
    IF i >= 3 THEN r ELSE MultiplyLoop(Multiply(r, ro, 0, i, 1, 0), ro, i + 1)

\* Lines 211-219.
BuildRhs(rhslev, vel, ro) ==
    MultiplyLoop(Copy(rhslev, vel, 0, 0, AMREX_SPACEDIM, 0), ro, 0)

\* Lines 222-223.
LoadPhi(philev, vel, periodic) ==
    FillBoundary(Copy(philev, vel, 0, 0, AMREX_SPACEDIM, 1), NCells, phi_nghost, periodic)

\* The disabled block of lines 226-240.
EBDirichletBlock_enabled(m, lev, speed) ==
    [m EXCEPT !.eb_dirichlet[lev] = IF speed > 0 THEN "inhomogeneous" ELSE "homogeneous"]
EBDirichletBlock(m, lev, speed) == m

\* Lines 208-241 for one level, on st = [matrix, phi, rhs].
AssembleLevel(st, lev, vel, ro, speed, periodic) ==
    LET r == BuildRhs(st.rhs[lev], vel, ro)
        p == LoadPhi(st.phi[lev], vel, periodic)
        m1 == setLevelBC(st.matrix, lev, p)
        m2 == EBDirichletBlock(m1, lev, speed)
    IN [matrix |-> m2,
        phi |-> [st.phi EXCEPT ![lev] = p],
        rhs |-> [st.rhs EXCEPT ![lev] = r]]

RECURSIVE AssembleLoop(_, _, _, _, _, _, _)
AssembleLoop(st, lev, fl, vel_in, ro_in, speed, periodic) ==
    IF lev \notin RhsLevels(fl) THEN st
    ELSE AssembleLoop(AssembleLevel(st, lev, vel_in[lev], ro_in[lev], speed, periodic),
                      lev + 1, fl, vel_in, ro_in, speed, periodic)

\* ------------------------------------------------------------------ MLMG
\* MLMG solver(matrix): the library's defaults.
NewMLMG ==
    [bottom_solver |-> "bicgstab",
     max_iter |-> 0, max_fmg_iter |-> 0, cg_maxiter |-> 0,
     verbose |-> 0, cg_verbose |-> 0,
     final_fill_bc |-> FALSE]

setSolverSettings_reject(solver, cfg0) ==
    IF cfg0.bottom_solver_type = "smoother"
    THEN [solver EXCEPT !.bottom_solver = "smoother",
                        !.max_iter = cfg0.mg_max_iter,
                        !.max_fmg_iter = cfg0.mg_max_fmg_iter,
                        !.cg_maxiter = cfg0.mg_cg_maxiter,
                        !.verbose = cfg0.mg_verbose,
                        !.cg_verbose = cfg0.mg_cg_verbose,
                        !.final_fill_bc = TRUE]
    ELSE IF cfg0.bottom_solver_type = "hypre"
    THEN [solver EXCEPT !.bottom_solver = "hypre",
                        !.max_iter = cfg0.mg_max_iter,
                        !.max_fmg_iter = cfg0.mg_max_fmg_iter,
                        !.cg_maxiter = cfg0.mg_cg_maxiter,
                        !.verbose = cfg0.mg_verbose,
                        !.cg_verbose = cfg0.mg_cg_verbose,
                        !.final_fill_bc = TRUE]
    ELSE solver

\* setSolverSettings (lines 265-287)
setSolverSettings(solver, cfg0) ==
    LET s1 == IF cfg0.bottom_solver_type = "smoother"
              THEN [solver EXCEPT !.bottom_solver = "smoother"]
              ELSE IF cfg0.bottom_solver_type = "hypre"
              THEN [solver EXCEPT !.bottom_solver = "hypre"]
              ELSE solver
    IN [s1 EXCEPT !.max_iter = cfg0.mg_max_iter,
                  !.max_fmg_iter = cfg0.mg_max_fmg_iter,
                  !.cg_maxiter = cfg0.mg_cg_maxiter,
                  !.verbose = cfg0.mg_verbose,
                  !.cg_verbose = cfg0.mg_cg_verbose,
                  !.final_fill_bc = TRUE]

\* ------------------------------------------------------------------ state
VARIABLES
    cfg,        \* the parameters read by readParameters
    amrcore,    \* [periodic, layout]: the mesh hierarchy and the EB factory
    cyl_speed,
    bc,         \* bc_lo, bc_hi
    b, phi, rhs, vel_eb,   \* the per-level buffers
    matrix,     \* the linear operator
    uninit,     \* what never-written memory reads as
    vel,        \* the caller's velocity buffers
    args,       \* the arguments of the latest solve call
    mlmg,       \* the solver of the latest solve call and what it was handed
    ncalls,     \* number of solve calls made
    aborted,    \* amrex::Abort() was called
    log         \* amrex::Print() output

vars == <<cfg, amrcore, cyl_speed, bc, b, phi, rhs, vel_eb, matrix, uninit,
          vel, args, mlmg, ncalls, aborted, log>>

ConstructMsg == "Constructing DiffusionEquation class"
DiffusingMsg == "Diffusing velocity components all together..."
DoneMsg == " done!"
ErrorMsg == "ERROR: DiffusionEquation::updateInternals() not yet implemented"

Flags(g) == [i \in Cells |-> EBFlag(g, i)]
Normals(g, lev) == [i \in Cells |-> BndryNormal(g, lev, i)]

\* vel_eb as the constructor leaves it.
ConstructVelEb(g, speed, u) ==
    [lev \in Levels |-> FillVelEb(Flags(g), Normals(g, lev), speed, u)]

NoArgs == [step |-> 0, dt |-> 0, finestLevel |-> 0]
NoMLMG == [settings |-> NewMLMG, levels |-> {}, rtol |-> 0, atol |-> 0, result |-> 0]

\* The constructor (lines 16-134).
Init ==
    \E pp \in Configs, speed \in Speeds,
       g \in Layouts, periodic \in BOOLEAN, u \in UninitVals :
        /\ cfg = readParameters(pp[1], pp[2])
        /\ amrcore = [periodic |-> periodic, layout |-> g]
        /\ cyl_speed = speed
        /\ bc = set_diff_bc(periodic)
        /\ b = [lev \in Levels |-> [dir \in Dirs |-> [i \in FaceIdx(dir) |-> u]]]
        /\ phi = [lev \in Levels |-> [i \in Grown(phi_nghost) |-> [c \in Comps |-> u]]]
        /\ rhs = [lev \in Levels |-> [i \in Cells |-> [c \in Comps |-> u]]]
        /\ vel_eb = ConstructVelEb(g, speed, u)
        /\ matrix = DefineMatrix(readParameters(pp[1], pp[2]), set_diff_bc(periodic))
        /\ uninit = u
        /\ vel = VelField(0)
        /\ args = NoArgs
        /\ mlmg = NoMLMG
        /\ ncalls = 0
        /\ aborted = FALSE
        /\ log = IF readParameters(pp[1], pp[2]).verbose > 0 THEN <<ConstructMsg>> ELSE <<>>

\* updateInternals (lines 156-163)
UpdateInternals_returns ==
    /\ ~aborted
    /\ Len(log) < 2 * MaxSolves + 2
    /\ log' = Append(log, ErrorMsg)
    /\ UNCHANGED <<cfg, amrcore, cyl_speed, bc, b, phi, rhs, vel_eb, matrix, uninit,
                   vel, args, mlmg, ncalls, aborted>>
UpdateInternals ==
    /\ ~aborted
    /\ log' = Append(log, ErrorMsg)
    /\ aborted' = TRUE
    /\ UNCHANGED <<cfg, amrcore, cyl_speed, bc, b, phi, rhs, vel_eb, matrix, uninit,
                   vel, args, mlmg, ncalls>>

\* solve (lines 168-259).  args records the call: the time step whose fields
\* were passed, dt and amrcore->finestLevel().  mlmg records the solver of
\* the call: its settings, the levels of the buffers it was handed, the
\* tolerances and which result it returned.  Nothing writes matrix or rhs
\* after the solver is invoked, so matrix' and rhs' are what it ran against.
Solve ==
    \E k \in StepCases, fl \in Levels, s \in SolCases :
        LET vel_in == VelField(k)
            ro_in == RoField(k)
            eta_in == EtaField(k)
            dt == DtOf(k)
            periodic == amrcore.periodic
            \* lines 187-201
            st1 == RefreshCoeffs([matrix |-> matrix, b |-> b], ro_in, eta_in, dt, fl, periodic)
            \* lines 208-241
            st2 == AssembleLoop([matrix |-> st1.matrix, phi |-> phi, rhs |-> rhs],
                                0, fl, vel_in, ro_in, cyl_speed, periodic)
            \* lines 243-247
            solver == [setSolverSettings(NewMLMG, cfg) EXCEPT !.final_fill_bc = TRUE]
            \* line 249: the solver overwrites every solution buffer it is handed
            phi3 == [lev \in Levels |->
                        IF lev \in SolverLevels THEN SolField(s)[lev] ELSE st2.phi[lev]]
            \* lines 251-255
            phi4 == [lev \in Levels |->
                        IF lev \in CopyBackLevels(fl)
                        THEN FillBoundary(phi3[lev], NCells, phi_nghost, periodic)
                        ELSE phi3[lev]]
            vel4 == [lev \in Levels |->
                        IF lev \in CopyBackLevels(fl)
                        THEN Copy(vel_in[lev], phi4[lev], 0, 0, AMREX_SPACEDIM, 1)
                        ELSE vel_in[lev]]
        IN /\ ~aborted
           /\ ncalls < MaxSolves
           /\ args' = [step |-> k, dt |-> dt, finestLevel |-> fl]
           /\ b' = st1.b
           /\ matrix' = st2.matrix
           /\ rhs' = st2.rhs
           /\ mlmg' = [settings |-> solver,
                       levels |-> SolverLevels \cap st2.matrix.levels,
                       rtol |-> cfg.mg_rtol,
                       atol |-> cfg.mg_atol,
                       result |-> s]
           /\ phi' = phi4
           /\ vel' = vel4
           /\ ncalls' = ncalls + 1
           /\ log' = IF cfg.verbose > 0 THEN log \o <<DiffusingMsg, DoneMsg>> ELSE log
           /\ UNCHANGED <<cfg, amrcore, cyl_speed, bc, vel_eb, uninit, aborted>>

Next == Solve \/ UpdateInternals

Spec == Init /\ [][Next]_vars

\* ------------------------------------------------------------ properties
Solved == ncalls > 0
FL == args.finestLevel
VelIn == VelField(args.step)
RoIn == RoField(args.step)
EtaIn == EtaField(args.step)
Periodic == amrcore.periodic

\* C1: after a solve, the caller's velocity buffer of every level
\* 0..finestLevel is the solution buffer of that level (on its cells, what
\* the solver returned), and the buffers of the levels above finestLevel
\* are what the caller passed in.
C1_VelocityWriteBack ==
    Solved =>
        \A lev \in Levels :
            IF lev <= FL
            THEN /\ vel[lev] = phi[lev]
                 /\ \A i \in Cells : vel[lev][i] = SolField(mlmg.result)[lev][i]
            ELSE vel[lev] = VelIn[lev]
C1_Witness ==
    /\ Solved
    /\ FL < MaxLevel
    /\ vel[0] # VelIn[0]
    /\ vel[MaxLevel] # phi[MaxLevel]

\* The average of the two cells across face i of direction dir.
ExpectedFace(eta, dir, i) ==
    IF dir = 0 THEN (eta[i - 1][0] + eta[i][0]) \div 2 ELSE eta[i][0]

\* C2: the operator the solver runs against has alpha = 1 and beta = dt of
\* this call and, on every level 0..finestLevel, the density of this call
\* as a, the face average of this call's viscosity as b, and this call's
\* viscosity as the embedded-boundary coefficient.
C2_CoefficientsOfThisCall ==
    Solved =>
        /\ matrix.alpha = 1
        /\ matrix.beta = args.dt
        /\ \A lev \in 0..FL :
            /\ matrix.a[lev] = [i \in Cells |-> RoIn[lev][i][0]]
            /\ matrix.eb_shear[lev] = [i \in Cells |-> EtaIn[lev][i][0]]
            /\ matrix.shear[lev] = b[lev]
            /\ \A dir \in Dirs : \A i \in 1..FaceHi(dir) :
                  b[lev][dir][i] = ExpectedFace(EtaIn[lev], dir, i)
C2_Witness ==
    /\ ncalls >= 2
    /\ FL = MaxLevel
    /\ args.dt # 1

\* C3 (as claimed): after construction the embedded-surface velocity is
\* zero in every cell that is regular or covered.
C3_ZeroInUncutCells ==
    \A lev \in Levels : \A i \in Cells :
        EBFlag(amrcore.layout, i) \in {"regular", "covered"}
            => \A c \in Comps : vel_eb[lev][i][c] = 0

\* C4 (as claimed): after construction every cell of a tile that is neither
\* all regular nor all covered holds (speed*sin(theta), -speed*cos(theta), 0).
C4_AllComponentsAssigned ==
    \A lev \in Levels : \A i \in Cells :
        getType(Flags(amrcore.layout), TileOf(i)) = "singlevalued"
            => LET n == BndryNormal(amrcore.layout, lev, i)
                   theta == atan2(-n[2], -n[1])
               IN /\ vel_eb[lev][i][0] = cyl_speed * sin(theta)
                  /\ vel_eb[lev][i][1] = -(cyl_speed * cos(theta))
                  /\ vel_eb[lev][i][2] = 0

\* C5: a step that prints the updateInternals diagnostic aborts and changes
\* no buffer, boundary code or operator coefficient; once aborted, nothing
\* happens any more.
C5_UpdateInternalsAborts ==
    [][/\ (Len(log') > Len(log) /\ log'[Len(log')] = ErrorMsg)
            => /\ aborted'
               /\ UNCHANGED <<cfg, amrcore, cyl_speed, bc, b, phi, rhs, vel_eb,
                              matrix, vel, args, mlmg, ncalls>>
       /\ aborted => UNCHANGED vars]_vars
C5_Witness ==
    /\ aborted
    /\ ncalls >= 1
    /\ log[Len(log)] = ErrorMsg

\* C6: the right-hand side the solver is given is, on every level
\* 0..finestLevel and for each component c, density times velocity
\* component c of this call.
C6_RhsIsMomentum ==
    Solved =>
        \A lev \in 0..FL : \A i \in Cells : \A c \in Comps :
            rhs[lev][i][c] = RoIn[lev][i][0] * VelIn[lev][i][c]
C6_Witness ==
    /\ ncalls >= 2
    /\ \E i \in Cells : RoIn[0][i][0] > 1

\* C7: the operator never holds an embedded-boundary Dirichlet condition,
\* and vel_eb keeps the contents the constructor gave it.
C7_NoEBDirichlet ==
    /\ \A lev \in Levels : matrix.eb_dirichlet[lev] = "none"
    /\ vel_eb = ConstructVelEb(amrcore.layout, cyl_speed, uninit)
C7_Witness ==
    /\ ncalls >= 2
    /\ cyl_speed > 0

\* C8: in every reachable operator state and for every input, running the
\* coefficient refresh a second time with the same input changes nothing.
C8_RefreshIdempotent ==
    /\ \A k \in StepCases : \A fl \in Levels :
        LET s1 == RefreshCoeffs([matrix |-> matrix, b |-> b],
                                RoField(k), EtaField(k), DtOf(k), fl, Periodic)
        IN RefreshCoeffs(s1, RoField(k), EtaField(k), DtOf(k), fl, Periodic) = s1
    /\ Solved =>
        RefreshCoeffs([matrix |-> matrix, b |-> b], RoIn, EtaIn, args.dt, FL, Periodic)
            = [matrix |-> matrix, b |-> b]
C8_Witness ==
    /\ Solved
    /\ \E k \in StepCases : \E fl \in Levels :
        RefreshCoeffs([matrix |-> matrix, b |-> b],
                      RoField(k), EtaField(k), DtOf(k), fl, Periodic)
            # [matrix |-> matrix, b |-> b]

\* C9: the solver of a solve call has the smoother or hypre bottom solver
\* when so named and the library default for every other name, and in all
\* cases the configured iteration caps and verbosities and the final
\* boundary fill.
C9_SolverSettings ==
    Solved =>
        /\ mlmg.settings.bottom_solver =
              (IF cfg.bottom_solver_type \in {"smoother", "hypre"}
               THEN cfg.bottom_solver_type ELSE NewMLMG.bottom_solver)
        /\ mlmg.settings.max_iter = cfg.mg_max_iter
        /\ mlmg.settings.max_fmg_iter = cfg.mg_max_fmg_iter
        /\ mlmg.settings.cg_maxiter = cfg.mg_cg_maxiter
        /\ mlmg.settings.verbose = cfg.mg_verbose
        /\ mlmg.settings.cg_verbose = cfg.mg_cg_verbose
        /\ mlmg.settings.final_fill_bc
C9_Witness ==
    /\ Solved
    /\ ~aborted
    /\ cfg.bottom_solver_type \notin {"smoother", "hypre", "bicgstab"}

\* C10 (as claimed): every level handed to the solver was configured in
\* this call: it is a level 0..finestLevel, its right-hand side is this
\* call's momentum, its boundary source is this call's velocity and its
\* coefficients are this call's.
C10_OnlyConfiguredLevelsSolved ==
    Solved =>
        \A lev \in mlmg.levels :
            /\ lev <= FL
            /\ \A i \in Cells : \A c \in Comps :
                  rhs[lev][i][c] = RoIn[lev][i][0] * VelIn[lev][i][c]
            /\ matrix.level_bc[lev] = LoadPhi(matrix.level_bc[lev], VelIn[lev], Periodic)
            /\ matrix.a[lev] = [i \in Cells |-> RoIn[lev][i][0]]

====
